---- MODULE Spec2Model ----
(***************************************************************************)
(* A state-machine model of ExcaliburGraphicsContextWebGL, the batched     *)
(* WebGL sprite renderer of                                                *)
(* src/src/engine/Graphics/Context/ExcaliburGraphicsContextWebGL.ts.       *)
(*                                                                         *)
(* The context's own methods (drawImage, flush, save, restore, translate,  *)
(* rotate, scale, transform, the opacity and z accessors and               *)
(* _updateVertexBufferData) are translated from that file.  Its            *)
(* collaborators Batch, Pool, MatrixStack, StateStack, TextureManager,     *)
(* DrawImageCommand and Matrix are imported by the file but their sources  *)
(* are not part of it; they are modelled from the design document          *)
(* (sections 3 and 4 of spec.md).                                          *)
(***************************************************************************)
EXTENDS Integers, Sequences, FiniteSets, TLC

VARIABLES
  batches,         \* _batches: the batch list, in submission order
  commandPool,     \* _commandPool: [free, total]
  batchPool,       \* _batchPool: [free, total]
  stack,           \* _stack: MatrixStack, the current transform is the top
  state,           \* _state: StateStack, the current [opacity, z] is the top
  textureManager,  \* _textureManager: backing image -> GPU texture handle (0: none)
  diag,            \* _diag: counters of the last flush
  snapToPixel,     \* snapToPixel: the public flag read by _updateVertexBufferData
  calls,           \* history: the drawImage calls made since the last flush
  saved,           \* history: what the caller observed right before each open save()
  last,            \* history: the last operation and what it consumed and issued
  ops              \* history: number of transform/state writes made so far

vars == <<batches, commandPool, batchPool, stack, state, textureManager, diag,
          snapToPixel, calls, saved, last, ops>>

-----------------------------------------------------------------------------
(* Sizes.  The source fixes _maxDrawingsPerBatch at 2000 (line 36) and      *)
(* reads the texture budget from the device (line 119); the model scales    *)
(* both down so that both caps are hit within a few draws.                  *)

\* _maxDrawingsPerBatch, the command-count cap of a batch (2000 in the source)
maxDrawingsPerBatch == 3

\* gl.getParameter(gl.MAX_TEXTURE_IMAGE_UNITS): what the device reports
MAX_TEXTURE_IMAGE_UNITS == 2

\* the field initialiser of _maxGPUTextures, in force until _init runs
DefaultMaxGPUTextures == 8

\* most drawImage calls the caller makes between two flushes
MaxDraws == 4

\* most drawImage calls between two flushes when every call uses one texture
MaxDrawsOneTexture == 7

\* deepest nesting of save() the caller uses
MaxDepth == 2

\* most transform/opacity/z writes the caller makes in one run
MaxStateOps == 3

\* most drawImage calls between two flushes while the caller also writes state
MaxDrawsCapture == 2

\* most transform/opacity/z writes the caller makes in a run that also draws
MaxCaptureOps == 1

\* deepest nesting of save() in a run that also draws
MaxCaptureDepth == 1

\* _maxGPUTextures after _init has read it from the device
maxGPUTextures == MAX_TEXTURE_IMAGE_UNITS

-----------------------------------------------------------------------------
(* Drawables.  A Graphic exposes its backing image through getSource();    *)
(* graphics 1 and 4 share one backing image.                               *)

NullGraphic == 0

Graphics == {1, 2, 3, 4}

Images == {1, 2, 3}

getSource(g) == IF g = 4 THEN 1 ELSE g

\* getSource().width and .height, in pixels: image 1 is 100 x 37, image 2 is
\* 64 x 64, image 3 has not loaded yet and reports 0 x 0
NaturalSize(i) ==
  CASE i = 1 -> <<100, 37>>
    [] i = 2 -> <<64, 64>>
    [] OTHER -> <<0, 0>>

\* the drawable's own dimensions: graphic 4 is a 50 x 20 part of image 1,
\* graphic 3 is declared 16 x 16 while its image loads
GraphicSize(g) ==
  CASE g = 1 -> <<100, 37>>
    [] g = 2 -> <<64, 64>>
    [] g = 3 -> <<16, 16>>
    [] OTHER -> <<50, 20>>

\* the source rectangle (x, y, width, height) a drawable is drawn from
View(g) ==
  IF g = 4 THEN <<10, 5, 50, 20>> ELSE <<0, 0, GraphicSize(g)[1], GraphicSize(g)[2]>>

-----------------------------------------------------------------------------
(* Sequence helpers *)

Range(s) == {s[i] : i \in 1..Len(s)}

Min(S) == CHOOSE x \in S : \A y \in S : x <= y

RECURSIVE Flatten(_)
Flatten(ss) == IF ss = <<>> THEN <<>> ELSE Head(ss) \o Flatten(Tail(ss))

\* Array.prototype.indexOf on a sequence: 0-based index of the first match, -1 if none
indexOf(arr, x) ==
  IF \E i \in 1..Len(arr) : arr[i] = x
  THEN Min({i \in 1..Len(arr) : arr[i] = x}) - 1
  ELSE -1

-----------------------------------------------------------------------------
(* Matrix: a 2D affine map, (x, y) |-> (a x + c y + tx, b x + d y + ty).   *)
(* Angles are in quarter turns so that all entries stay integers.          *)

Identity == [a |-> 1, b |-> 0, c |-> 0, d |-> 1, tx |-> 0, ty |-> 0]

\* m * n: n is applied first (post-multiplication onto m)
Multiply(m, n) ==
  [a  |-> m.a * n.a + m.c * n.b,
   b  |-> m.b * n.a + m.d * n.b,
   c  |-> m.a * n.c + m.c * n.d,
   d  |-> m.b * n.c + m.d * n.d,
   tx |-> m.a * n.tx + m.c * n.ty + m.tx,
   ty |-> m.b * n.tx + m.d * n.ty + m.ty]

Translation(x, y) == [a |-> 1, b |-> 0, c |-> 0, d |-> 1, tx |-> x, ty |-> y]

Cos(q) == CASE q % 4 = 0 -> 1 [] q % 4 = 1 -> 0 [] q % 4 = 2 -> -1 [] OTHER -> 0

Sin(q) == CASE q % 4 = 0 -> 0 [] q % 4 = 1 -> 1 [] q % 4 = 2 -> 0 [] OTHER -> -1

Rotation(q) == [a |-> Cos(q), b |-> Sin(q), c |-> 0 - Sin(q), d |-> Cos(q), tx |-> 0, ty |-> 0]

Scaling(x, y) == [a |-> x, b |-> 0, c |-> 0, d |-> y, tx |-> 0, ty |-> 0]

multv(m, p) == <<m.a * p[1] + m.c * p[2] + m.tx, m.b * p[1] + m.d * p[2] + m.ty>>

-----------------------------------------------------------------------------
(* MatrixStack and StateStack (section 4.5): save duplicates the current   *)
(* frame and pushes it, restore pops; the current frame is the top.        *)

StackCurrent(s) == s[Len(s)]

StackSave(s) == Append(s, StackCurrent(s))

StackRestore(s) == SubSeq(s, 1, Len(s) - 1)

StackSetCurrent(s, v) == [s EXCEPT ![Len(s)] = v]

DefaultState == [opacity |-> 1, z |-> 0]

\* what the caller can observe of the transform and render state
Observed == [transform |-> StackCurrent(stack),
             opacity   |-> StackCurrent(state).opacity,
             z         |-> StackCurrent(state).z]

-----------------------------------------------------------------------------
(* Pool (section 4.4): get returns a freed instance or constructs one,     *)
(* free returns an instance to the free list.  Instances are numbered in   *)
(* order of construction; get hands out the free instance with the lowest  *)
(* number.  A freed instance keeps the fields of its last use; what the    *)
(* next user finds in them is drawn from Leftovers below.                  *)

NewPool(preAllocate) == [free |-> 1..preAllocate, total |-> preAllocate]

PoolNext(pool) == IF pool.free # {} THEN Min(pool.free) ELSE pool.total + 1

PoolGet(pool) ==
  IF pool.free # {}
  THEN [pool EXCEPT !.free = @ \ {Min(pool.free)}]
  ELSE [pool EXCEPT !.total = @ + 1]

PoolFree(pool, ids) == [pool EXCEPT !.free = @ \cup ids]

InUse(pool) == pool.total - Cardinality(pool.free)

-----------------------------------------------------------------------------
(* TextureManager (section 4.2): a cache keyed by backing image; the       *)
(* first reference to an image creates its texture handle.                 *)

hasWebGLTexture(tm, g) == tm[getSource(g)] # 0

getWebGLTexture(tm, g) == tm[getSource(g)]

\* loading a texture drops the textures loaded before it
loadWebGLTextureEvicts(tm, g) ==
  IF hasWebGLTexture(tm, g)
  THEN tm
  ELSE [i \in Images |-> IF i = getSource(g) THEN 1 ELSE 0]

loadWebGLTexture(tm, g) ==
  IF hasWebGLTexture(tm, g)
  THEN tm
  ELSE [tm EXCEPT ![getSource(g)] = Cardinality({i \in Images : tm[i] # 0}) + 1]

-----------------------------------------------------------------------------
(* DrawImageCommand (section 3): init overwrites the image, the source     *)
(* rectangle, the dimensions and the destination; applyTransform resolves the destination quad (two          *)
(* triangles) under the transform that is current at the call and captures *)
(* opacity and z.  Coordinates are counted in half pixels, so that a       *)
(* position can lie off the pixel grid.                                    *)

\* the corners of the two triangles of a quad one pixel wide and high
QuadCorners == << <<0, 0>>, <<0, 2>>, <<2, 0>>, <<2, 0>>, <<0, 2>>, <<2, 2>> >>

Geometry(transform, dest) ==
  [i \in 1..6 |-> multv(transform, <<dest[1] + QuadCorners[i][1],
                                      dest[2] + QuadCorners[i][2]>>)]

init(command, g, dest) ==
  [command EXCEPT !.image = g, !.dest = dest, !.view = View(g),
                  !.width = GraphicSize(g)[1], !.height = GraphicSize(g)[2]]

applyTransform(command, transform, opacity, z) ==
  [command EXCEPT !.geometry = Geometry(transform, command.dest),
                  !.opacity = opacity, !.z = z]

-----------------------------------------------------------------------------
(* Batch (section 4.3) *)

\* what Pool.get does to a batch before it hands it out
reset(batch) == [batch EXCEPT !.commands = <<>>, !.textures = <<>>]

-----------------------------------------------------------------------------
(* What a pooled object holds when the pool hands it out: the fields of    *)
(* some earlier use.  flush frees commands and batches as they are, so     *)
(* the next user may find any earlier drawable, destination, quad,         *)
(* opacity, z, command list and texture list in them.                      *)

Leftovers ==
  { [image |-> 2, dest |-> <<1, 1>>, corner |-> <<2, 2>>, opacity |-> 0, z |-> 1,
     view |-> <<1, 1, 8, 8>>, textures |-> <<1>>],
    [image |-> 3, dest |-> <<0, 1>>, corner |-> <<0, 3>>, opacity |-> 1, z |-> 0,
     view |-> <<0, 2, 4, 4>>, textures |-> <<2, 1>>] }

LeftoverCommand(id, l) ==
  [id |-> id, image |-> l.image, dest |-> l.dest, view |-> l.view,
   width |-> l.view[3], height |-> l.view[4],
   geometry |-> [i \in 1..6 |-> l.corner], opacity |-> l.opacity, z |-> l.z]

LeftoverBatch(id, l) ==
  [id |-> id, commands |-> <<LeftoverCommand(id, l)>>, textures |-> l.textures]

\* maybeAdd's admission test for a command whose texture is tex
canAdd(batch, tex) ==
  /\ Len(batch.commands) # maxDrawingsPerBatch
  /\ Cardinality(Range(batch.textures) \cup {tex}) <= maxGPUTextures

\* add: register the texture (idempotent) and append, capacity not checked
add(batch, command, tex) ==
  [batch EXCEPT
     !.textures = IF tex \in Range(@) THEN @ ELSE Append(@, tex),
     !.commands = Append(@, command)]

-----------------------------------------------------------------------------
(* History records *)

NoFlush == [calls |-> <<>>, draws |-> <<>>, list |-> <<>>, batches |-> 0]

NoSnap == [transform |-> Identity, opacity |-> DefaultState.opacity, z |-> DefaultState.z]

Last(op, flushed, snap) == [op |-> op, flushed |-> flushed, snap |-> snap]

Call(g, dest) ==
  [graphic |-> g, dest |-> dest, transform |-> StackCurrent(stack),
   opacity |-> StackCurrent(state).opacity, z |-> StackCurrent(state).z]

-----------------------------------------------------------------------------
Init ==
  /\ batches = <<>>
  /\ commandPool = NewPool(maxDrawingsPerBatch)
  /\ batchPool = NewPool(0)
  /\ stack = <<Identity>>
  /\ state = <<DefaultState>>
  /\ textureManager = [i \in Images |-> 0]
  /\ diag = [quads |-> 0, batches |-> 0, uniqueTextures |-> 0,
             maxTexturePerDraw |-> DefaultMaxGPUTextures]
  /\ snapToPixel = TRUE
  /\ calls = <<>>
  /\ saved = <<>>
  /\ last = Last("new", NoFlush, NoSnap)
  /\ ops = 0

-----------------------------------------------------------------------------
(* drawImage with a null or undefined graphic: warn and return *)

\* the early return left out: the call goes on to take a command from the pool
DrawImageNullFallsThrough ==
  /\ commandPool' = PoolGet(commandPool)
  /\ last' = Last("drawImageNull", NoFlush, NoSnap)
  /\ UNCHANGED <<snapToPixel, batches, batchPool, stack, state, textureManager,
                 diag, calls, saved, ops>>

DrawImageNull ==
  /\ last' = Last("drawImageNull", NoFlush, NoSnap)
  /\ UNCHANGED <<snapToPixel, batches, commandPool, batchPool, stack, state, textureManager,
                 diag, calls, saved, ops>>

(* Batch admission of drawImage: open the first batch if there is none,    *)
(* try the last batch, and open a new batch for a rejected command.        *)
(* Gives the batch list and the batch pool after the call; l is what the   *)
(* batches taken from the pool were left with.                             *)

\* _batchPool.get(): the next pooled batch, reset
getBatch(pool, l) == reset(LeftoverBatch(PoolNext(pool), l))

\* a rejected command is added to the last batch instead of a new one
admitIntoLast(command, tex, l) ==
  LET first == Len(batches) = 0
      pool1 == IF first THEN PoolGet(batchPool) ELSE batchPool
      list1 == IF first THEN <<getBatch(batchPool, l)>> ELSE batches
      lastBatch == list1[Len(list1)]
  IN  [batches   |-> [list1 EXCEPT ![Len(list1)] = add(lastBatch, command, tex)],
       batchPool |-> pool1]

\* every command opens a batch of its own
admitAlwaysNew(command, tex, l) ==
  [batches   |-> Append(batches, add(getBatch(batchPool, l), command, tex)),
   batchPool |-> PoolGet(batchPool)]

\* the new batch is pushed without the rejected command
admitDropRejected(command, tex, l) ==
  LET first == Len(batches) = 0
      pool1 == IF first THEN PoolGet(batchPool) ELSE batchPool
      list1 == IF first THEN <<getBatch(batchPool, l)>> ELSE batches
      lastBatch == list1[Len(list1)]
  IN  IF canAdd(lastBatch, tex)
      THEN [batches   |-> [list1 EXCEPT ![Len(list1)] = add(lastBatch, command, tex)],
            batchPool |-> pool1]
      ELSE [batches   |-> Append(list1, getBatch(pool1, l)),
            batchPool |-> PoolGet(pool1)]

\* the texture of a rejected command is left registered in the last batch
admitRegistersRejected(command, tex, l) ==
  LET first == Len(batches) = 0
      pool1 == IF first THEN PoolGet(batchPool) ELSE batchPool
      list1 == IF first THEN <<getBatch(batchPool, l)>> ELSE batches
      lastBatch == list1[Len(list1)]
      registered == [lastBatch EXCEPT
                       !.textures = IF tex \in Range(@) THEN @ ELSE Append(@, tex)]
  IN  IF canAdd(lastBatch, tex)
      THEN [batches   |-> [list1 EXCEPT ![Len(list1)] = add(lastBatch, command, tex)],
            batchPool |-> pool1]
      ELSE [batches   |-> Append([list1 EXCEPT ![Len(list1)] = registered],
                                 add(getBatch(pool1, l), command, tex)),
            batchPool |-> PoolGet(pool1)]

\* a rejected command is pushed onto the new batch without its texture
admitUnregistered(command, tex, l) ==
  LET first == Len(batches) = 0
      pool1 == IF first THEN PoolGet(batchPool) ELSE batchPool
      list1 == IF first THEN <<getBatch(batchPool, l)>> ELSE batches
      lastBatch == list1[Len(list1)]
      added == canAdd(lastBatch, tex)
  IN  IF added
      THEN [batches   |-> [list1 EXCEPT ![Len(list1)] = add(lastBatch, command, tex)],
            batchPool |-> pool1]
      ELSE [batches   |-> Append(list1, [getBatch(pool1, l) EXCEPT !.commands = <<command>>]),
            batchPool |-> PoolGet(pool1)]

admit(command, tex, l) ==
  LET first == Len(batches) = 0
      pool1 == IF first THEN PoolGet(batchPool) ELSE batchPool
      list1 == IF first THEN <<getBatch(batchPool, l)>> ELSE batches
      lastBatch == list1[Len(list1)]
      added == canAdd(lastBatch, tex)
  IN  IF added
      THEN [batches   |-> [list1 EXCEPT ![Len(list1)] = add(lastBatch, command, tex)],
            batchPool |-> pool1]
      ELSE [batches   |-> Append(list1, add(getBatch(pool1, l), command, tex)),
            batchPool |-> PoolGet(pool1)]

(* The command of a drawImage call: taken from the pool, initialised and   *)
(* transformed; l is what the pooled command was left with.                *)

\* init is not called on the pooled command
acquireNoInit(g, dest, l) ==
  applyTransform(LeftoverCommand(PoolNext(commandPool), l),
                 StackCurrent(stack), StackCurrent(state).opacity, StackCurrent(state).z)

acquire(g, dest, l) ==
  applyTransform(init(LeftoverCommand(PoolNext(commandPool), l), g, dest),
                 StackCurrent(stack), StackCurrent(state).opacity, StackCurrent(state).z)

(* drawImage with a graphic, drawn at dest.  The command, the texture      *)
(* cache and the admission are each worked out once, as in the source.     *)
DrawImageAt(g, dest) ==
  \E l \in Leftovers :
    \E command \in {acquire(g, dest, l)} :
      \E tm \in {loadWebGLTexture(textureManager, command.image)} :
        \E admitted \in {admit(command, getWebGLTexture(tm, command.image), l)} :
          /\ g # NullGraphic
          /\ commandPool' = PoolGet(commandPool)
          /\ textureManager' = tm
          /\ batches' = admitted.batches
          /\ batchPool' = admitted.batchPool
          /\ calls' = Append(calls, Call(g, dest))
          /\ last' = Last("drawImage", NoFlush, NoSnap)
          /\ UNCHANGED <<snapToPixel, stack, state, diag, saved, ops>>

\* drawImage(graphic, 0, 0)
DrawImage(g) == DrawImageAt(g, <<0, 0>>)

-----------------------------------------------------------------------------
(* _updateVertexBufferData: the quads packed for one batch, in command     *)
(* order, written over the start of _verts.  textureId is carried from one *)
(* command to the next and is only reassigned when the texture manager     *)
(* knows the command's image.                                              *)

\* ~~v for a coordinate counted in half pixels: the fraction is dropped
truncate(v) == IF v >= 0 THEN (v \div 2) * 2 ELSE -(((-v) \div 2) * 2)

\* ensurePowerOfTwo(n): the smallest power of two that is at least n
RECURSIVE nextPowerOfTwo(_, _)
nextPowerOfTwo(p, n) == IF p >= n THEN p ELSE nextPowerOfTwo(2 * p, n)

ensurePowerOfTwo(n) == nextPowerOfTwo(1, n)

\* the widths and heights that images, graphics and pooled commands can hold
Dimensions ==
  UNION {{NaturalSize(i)[1], NaturalSize(i)[2]} : i \in Images}
    \cup UNION {{GraphicSize(g)[1], GraphicSize(g)[2]} : g \in Graphics}
    \cup UNION {{l.view[3], l.view[4]} : l \in Leftovers}

\* ensurePowerOfTwo over those dimensions, computed once
PaddedDimension == [n \in Dimensions |-> ensurePowerOfTwo(n)]

\* a || b for two numbers: a unless it is 0
orElse(a, b) == IF a # 0 THEN a ELSE b

\* a / b, kept as the fraction <<a, b>>
Div(a, b) == <<a, b>>

\* uvx0, uvy0, uvx1, uvy1 of a command; the six vertices take them in the
\* order (0, 0), (0, 1), (1, 0), (1, 0), (0, 1), (1, 1)
TexCoords(command, potWidth, potHeight) ==
  LET sx == command.view[1]
      sy == command.view[2]
      sw == command.view[3]
      sh == command.view[4]
  IN  <<Div(sx, potWidth), Div(sy, potHeight),
        Div(sx + sw, potWidth), Div(sy + sh, potHeight)>>

\* the quad is packed with the transform, opacity and z current at the flush
PackQuadCurrentState(command, textureId) ==
  [geometry |-> Geometry(StackCurrent(stack), command.dest),
   z |-> StackCurrent(state).z,
   uv |-> TexCoords(command,
            ensurePowerOfTwo(orElse(NaturalSize(getSource(command.image))[1], command.width)),
            ensurePowerOfTwo(orElse(NaturalSize(getSource(command.image))[2], command.height))),
   textureId |-> textureId,
   opacity |-> StackCurrent(state).opacity]

\* the texture coordinates are taken against the unpadded dimensions
PackQuadUnpadded(command, textureId) ==
  [geometry |-> command.geometry, z |-> command.z,
   uv |-> TexCoords(command,
            orElse(NaturalSize(getSource(command.image))[1], command.width),
            orElse(NaturalSize(getSource(command.image))[2], command.height)),
   textureId |-> textureId, opacity |-> command.opacity]

\* the record of one quad; x and y are computed and written nowhere
PackQuad(command, textureId) ==
  LET x == IF snapToPixel THEN truncate(command.dest[1]) ELSE command.dest[1]
      y == IF snapToPixel THEN truncate(command.dest[2]) ELSE command.dest[2]
      potWidth  == PaddedDimension[orElse(NaturalSize(getSource(command.image))[1],
                                          command.width)]
      potHeight == PaddedDimension[orElse(NaturalSize(getSource(command.image))[2],
                                          command.height)]
  IN  [geometry |-> command.geometry, z |-> command.z,
       uv |-> TexCoords(command, potWidth, potHeight),
       textureId |-> textureId, opacity |-> command.opacity]

\* the slot written is the position of the texture in the texture cache,
\* not its position in the batch's texture list
RECURSIVE PackFromCacheIndex(_, _, _)
PackFromCacheIndex(batch, i, textureId) ==
  IF i > Len(batch.commands)
  THEN <<>>
  ELSE LET command == batch.commands[i]
           id == IF hasWebGLTexture(textureManager, command.image)
                 THEN getWebGLTexture(textureManager, command.image) - 1
                 ELSE textureId
       IN  <<PackQuad(command, id)>> \o PackFromCacheIndex(batch, i + 1, id)

RECURSIVE PackFrom(_, _, _)
PackFrom(batch, i, textureId) ==
  IF i > Len(batch.commands)
  THEN <<>>
  ELSE LET command == batch.commands[i]
           id == IF hasWebGLTexture(textureManager, command.image)
                 THEN indexOf(batch.textures, getWebGLTexture(textureManager, command.image))
                 ELSE textureId
       IN  <<PackQuad(command, id)>> \o PackFrom(batch, i + 1, id)

\* 6 verts per quad, 7 pieces of float data
vertexSize == 6 * 7

\* _verts.length: new Float32Array(vertexSize * _maxDrawingsPerBatch)
VertsLength == vertexSize * maxDrawingsPerBatch

\* which of uvx0, uvy0, uvx1, uvy1 each of the six vertices of a quad takes
VertexUV == << <<1, 2>>, <<1, 4>>, <<3, 2>>, <<3, 2>>, <<1, 4>>, <<3, 4>> >>

\* the values the vertIndex++ writes of one quad store, in order: per vertex
\* x, y, z, u, v, textureId, opacity
QuadFloats(q) ==
  Flatten([i \in 1..6 |->
             <<q.geometry[i][1], q.geometry[i][2], q.z,
               q.uv[VertexUV[i][1]], q.uv[VertexUV[i][2]], q.textureId, q.opacity>>])

\* the values one call of _updateVertexBufferData stores; the k-th of them
\* goes to _verts[k - 1], vertIndex starting at 0
BatchFloats(batch) ==
  LET packed == PackFrom(batch, 1, 0)
  IN  Flatten([k \in 1..Len(packed) |-> QuadFloats(packed[k])])

\* a quad record of the zero-filled Float32Array
ZeroQuad ==
  [geometry |-> [i \in 1..6 |-> <<0, 0>>], z |-> 0, uv |-> <<0, 0, 0, 0>>,
   textureId |-> 0, opacity |-> 0]

\* _verts as the constructor allocates it: room for maxDrawingsPerBatch quads.
\* The records earlier flushes left in it are not kept: a record that the
\* current flush has not written reads as ZeroQuad.
NewVerts == [k \in 1..maxDrawingsPerBatch |-> ZeroQuad]

\* _verts[vertIndex++] = ...: a typed array drops a write past its end
writeVerts(verts, packed) ==
  [k \in 1..Len(verts) |-> IF k <= Len(packed) THEN packed[k] ELSE verts[k]]

\* the quads that the first vertexCount vertices of _verts make up
readVerts(verts, vertexCount) ==
  [k \in 1..(vertexCount \div 6) |-> IF k <= Len(verts) THEN verts[k] ELSE ZeroQuad]

updateVertexBufferData(verts, batch) == writeVerts(verts, PackFrom(batch, 1, 0))

\* one gl.drawArrays(gl.TRIANGLES, 0, vertexCount) with what it reads: the
\* first vertexCount vertices of _verts, and the textures bindTextures has
\* bound to units 0, 1, ...

\* the draw call covers the whole buffer
DrawArraysWholeBuffer(batch, verts) ==
  [vertexCount |-> 6 * maxDrawingsPerBatch,
   verts       |-> readVerts(verts, 6 * maxDrawingsPerBatch),
   units       |-> batch.textures]

DrawArrays(batch, verts) ==
  [vertexCount |-> 6 * Len(batch.commands),
   verts       |-> readVerts(verts, 6 * Len(batch.commands)),
   units       |-> batch.textures]

\* the loop of flush from batch i on, with _verts as the batches before i
\* left it: pack the batch, then draw it
RECURSIVE FlushFrom(_, _)
FlushFrom(i, verts) ==
  IF i > Len(batches)
  THEN <<>>
  ELSE LET packed == updateVertexBufferData(verts, batches[i])
       IN  <<DrawArrays(batches[i], packed)>> \o FlushFrom(i + 1, packed)

\* textures.filter((v, i, arr) => arr.indexOf(v === i)).length

\* v === i, for a texture object v and its index i: never the same type
strictEqualsIndex(v, i) == FALSE

\* arr.indexOf(b) for a boolean b: arr holds texture objects only, none is found
indexOfBoolean(arr, b) == -1

\* a number as a filter result: kept unless it is 0
truthy(n) == n # 0

FilterKeeps(arr, i) == truthy(indexOfBoolean(arr, strictEqualsIndex(arr[i], i - 1)))

uniqueTextures(arr) == Cardinality({i \in 1..Len(arr) : FilterKeeps(arr, i)})

\* the counters flush leaves in _diag

\* quads is not reset at the start of flush
FlushDiagAccumulates ==
  [quads |-> diag.quads + Len(Flatten([i \in 1..Len(batches) |-> batches[i].commands])),
   uniqueTextures |-> uniqueTextures(Flatten([i \in 1..Len(batches) |-> batches[i].textures])),
   batches |-> Len(batches),
   maxTexturePerDraw |-> maxGPUTextures]

FlushDiag ==
  [quads |-> Len(Flatten([i \in 1..Len(batches) |-> batches[i].commands])),
   uniqueTextures |-> uniqueTextures(Flatten([i \in 1..Len(batches) |-> batches[i].textures])),
   batches |-> Len(batches),
   maxTexturePerDraw |-> maxGPUTextures]

\* the pools after flush has freed every command and every batch

\* the batches are not returned to their pool
FlushBatchPoolLeaks == batchPool

FlushBatchPool == PoolFree(batchPool, {batches[i].id : i \in 1..Len(batches)})

\* the commands are not returned to their pool
FlushCommandPoolLeaks == commandPool

FlushCommandPool ==
  PoolFree(commandPool,
           UNION {{c.id : c \in Range(batches[i].commands)} : i \in 1..Len(batches)})

\* the render state is put back to its defaults at the end of the frame
FlushResetsState ==
  LET draws == FlushFrom(1, NewVerts)
  IN  /\ diag' = FlushDiag
      /\ commandPool' = FlushCommandPool
      /\ batchPool' = FlushBatchPool
      /\ batches' = <<>>
      /\ calls' = <<>>
      /\ state' = StackSetCurrent(state, DefaultState)
      /\ last' = Last("flush", [calls |-> calls, draws |-> draws, list |-> batches,
                               batches |-> Len(batches)], NoSnap)
      /\ UNCHANGED <<snapToPixel, stack, textureManager, saved, ops>>

Flush ==
  LET draws == FlushFrom(1, NewVerts)
  IN  /\ diag' = FlushDiag
      /\ commandPool' = FlushCommandPool
      /\ batchPool' = FlushBatchPool
      /\ batches' = <<>>
      /\ calls' = <<>>
      /\ last' = Last("flush", [calls |-> calls, draws |-> draws, list |-> batches,
                               batches |-> Len(batches)], NoSnap)
      /\ UNCHANGED <<snapToPixel, stack, state, textureManager, saved, ops>>

-----------------------------------------------------------------------------
(* save, restore and the writes of the transform and the render state *)

\* only the state stack is pushed
SaveStateOnly ==
  /\ stack' = stack
  /\ state' = StackSave(state)
  /\ saved' = Append(saved, Observed)
  /\ last' = Last("save", NoFlush, NoSnap)
  /\ UNCHANGED <<snapToPixel, batches, commandPool, batchPool, textureManager, diag, calls, ops>>

Save ==
  /\ stack' = StackSave(stack)
  /\ state' = StackSave(state)
  /\ saved' = Append(saved, Observed)
  /\ last' = Last("save", NoFlush, NoSnap)
  /\ UNCHANGED <<snapToPixel, batches, commandPool, batchPool, textureManager, diag, calls, ops>>

\* only the matrix stack is popped
RestoreMatrixOnly ==
  /\ Len(stack) > 1
  /\ Len(state) > 1
  /\ stack' = StackRestore(stack)
  /\ state' = state
  /\ saved' = SubSeq(saved, 1, Len(saved) - 1)
  /\ last' = Last("restore", NoFlush, saved[Len(saved)])
  /\ UNCHANGED <<snapToPixel, batches, commandPool, batchPool, textureManager, diag, calls, ops>>

Restore ==
  /\ Len(stack) > 1
  /\ Len(state) > 1
  /\ stack' = StackRestore(stack)
  /\ state' = StackRestore(state)
  /\ saved' = SubSeq(saved, 1, Len(saved) - 1)
  /\ last' = Last("restore", NoFlush, saved[Len(saved)])
  /\ UNCHANGED <<snapToPixel, batches, commandPool, batchPool, textureManager, diag, calls, ops>>

\* a write of the current transform
SetTransform(op, m) ==
  /\ stack' = StackSetCurrent(stack, m)
  /\ ops' = ops + 1
  /\ last' = Last(op, NoFlush, NoSnap)
  /\ UNCHANGED <<snapToPixel, batches, commandPool, batchPool, state, textureManager, diag, calls, saved>>

Translate(x, y) == SetTransform("translate", Multiply(StackCurrent(stack), Translation(x, y)))

Rotate(angle) == SetTransform("rotate", Multiply(StackCurrent(stack), Rotation(angle)))

Scale(x, y) == SetTransform("scale", Multiply(StackCurrent(stack), Scaling(x, y)))

Transform(matrix) == SetTransform("transform", matrix)

SetOpacity(value) ==
  /\ state' = StackSetCurrent(state, [StackCurrent(state) EXCEPT !.opacity = value])
  /\ ops' = ops + 1
  /\ last' = Last("opacity", NoFlush, NoSnap)
  /\ UNCHANGED <<snapToPixel, batches, commandPool, batchPool, stack, textureManager, diag, calls, saved>>

SetZ(value) ==
  /\ state' = StackSetCurrent(state, [StackCurrent(state) EXCEPT !.z = value])
  /\ ops' = ops + 1
  /\ last' = Last("z", NoFlush, NoSnap)
  /\ UNCHANGED <<snapToPixel, batches, commandPool, batchPool, stack, textureManager, diag, calls, saved>>

\* clear() paints the background: two device calls, no field of the context
\* is written

\* the counters are zeroed with the canvas
ClearResetsDiag ==
  /\ diag' = [diag EXCEPT !.quads = 0, !.batches = 0, !.uniqueTextures = 0]
  /\ last' = Last("clear", NoFlush, NoSnap)
  /\ UNCHANGED <<snapToPixel, batches, commandPool, batchPool, stack, state, textureManager,
                 calls, saved, ops>>

Clear ==
  /\ last' = Last("clear", NoFlush, NoSnap)
  /\ UNCHANGED <<snapToPixel, batches, commandPool, batchPool, stack, state, textureManager,
                 diag, calls, saved, ops>>

\* snapToPixel = value, a write of the public field
SetSnapToPixel(value) ==
  /\ snapToPixel # value
  /\ snapToPixel' = value
  /\ last' = Last("snapToPixel", NoFlush, NoSnap)
  /\ UNCHANGED <<batches, commandPool, batchPool, stack, state, textureManager, diag,
                 calls, saved, ops>>

-----------------------------------------------------------------------------
(* The caller's inputs *)

Offsets == {<<1, 0>>, <<0, 1>>}

Angles == {1}

Factors == {<<2, 1>>}

Matrices == {Translation(2, 2)}

Opacities == {0, 1}

Depths == {0, 1}

\* destinations, in half pixels: on the pixel grid and half a pixel off it
Dests == {<<0, 0>>, <<1, 0>>}

-----------------------------------------------------------------------------
(* Spec: frames of drawImage calls over all graphics, each ended by flush *)

Next ==
  \/ \E g \in Graphics : Len(calls) < MaxDraws /\ DrawImage(g)
  \/ Flush

Spec == Init /\ [][Next]_vars

(* SpecNull: frames over three graphics with images of their own, with     *)
(* drawImage calls that pass null in between                               *)

NextNull ==
  \/ \E g \in {h \in Graphics : h # 4} : Len(calls) < MaxDraws /\ DrawImage(g)
  \/ DrawImageNull
  \/ Flush

SpecNull == Init /\ [][NextNull]_vars

(* SpecOneTexture: longer frames in which every call uses the texture of   *)
(* one backing image (graphics 1 and 4 share it)                           *)

NextOneTexture ==
  \/ \E g \in {h \in Graphics : getSource(h) = 1} :
        Len(calls) < MaxDrawsOneTexture /\ DrawImage(g)
  \/ Flush

SpecOneTexture == Init /\ [][NextOneTexture]_vars

(* SpecFrames: frames of drawImage calls on three textures, with the       *)
(* caller's save/restore nesting interleaved                               *)

NextFrames ==
  \/ \E g \in {h \in Graphics : h # 1} : Len(calls) < MaxDraws /\ DrawImage(g)
  \/ Flush
  \/ Len(saved) < MaxDepth /\ Save
  \/ Restore

SpecFrames == Init /\ [][NextFrames]_vars

(* SpecStack: the caller nests save/restore and writes the transform,      *)
(* the opacity and z                                                       *)

NextStack ==
  \/ Len(saved) < MaxDepth /\ Save
  \/ Restore
  \/ \E o \in Offsets : ops < MaxStateOps /\ Translate(o[1], o[2])
  \/ \E q \in Angles : ops < MaxStateOps /\ Rotate(q)
  \/ \E f \in Factors : ops < MaxStateOps /\ Scale(f[1], f[2])
  \/ \E m \in Matrices : ops < MaxStateOps /\ Transform(m)
  \/ \E v \in Opacities : ops < MaxStateOps /\ SetOpacity(v)
  \/ \E v \in Depths : ops < MaxStateOps /\ SetZ(v)

SpecStack == Init /\ [][NextStack]_vars

(* SpecCapture: the caller draws one graphic and, between the calls and    *)
(* before the flush, nests save/restore and writes the transform, the      *)
(* opacity and z                                                           *)

NextCapture ==
  \/ Len(calls) < MaxDrawsCapture /\ DrawImage(1)
  \/ Flush
  \/ Len(saved) < MaxCaptureDepth /\ Save
  \/ Restore
  \/ ops < MaxCaptureOps /\ Translate(1, 0)
  \/ \E q \in Angles : ops < MaxCaptureOps /\ Rotate(q)
  \/ \E f \in Factors : ops < MaxCaptureOps /\ Scale(f[1], f[2])
  \/ \E m \in Matrices : ops < MaxCaptureOps /\ Transform(m)
  \/ ops < MaxCaptureOps /\ SetOpacity(0)
  \/ ops < MaxCaptureOps /\ SetZ(1)

SpecCapture == Init /\ [][NextCapture]_vars

(* SpecSnap: the caller draws one graphic at destinations on and off the   *)
(* pixel grid, moves the transform by half pixels and switches snapToPixel *)

NextSnap ==
  \/ \E d \in Dests : Len(calls) < MaxDrawsCapture /\ DrawImageAt(1, d)
  \/ Flush
  \/ \E o \in Offsets : ops < MaxCaptureOps /\ Translate(o[1], o[2])
  \/ \E v \in BOOLEAN : SetSnapToPixel(v)

SpecSnap == Init /\ [][NextSnap]_vars

-----------------------------------------------------------------------------
(* SpecUV: the caller draws whole images, a part of an image and a graphic *)
(* whose image has not loaded, and flushes                                 *)

NextUV ==
  \/ \E g \in Graphics : Len(calls) < MaxDrawsCapture /\ DrawImage(g)
  \/ Flush

SpecUV == Init /\ [][NextUV]_vars

-----------------------------------------------------------------------------
(* SpecDiag: every operation of the context, drawing one graphic and null  *)

NextDiag ==
  \/ Len(calls) < MaxDrawsCapture /\ DrawImage(3)
  \/ DrawImageNull
  \/ Flush
  \/ Clear
  \/ Len(saved) < MaxCaptureDepth /\ Save
  \/ Restore
  \/ ops < MaxCaptureOps /\ Translate(1, 0)
  \/ ops < MaxCaptureOps /\ Rotate(1)
  \/ ops < MaxCaptureOps /\ Scale(2, 2)
  \/ ops < MaxCaptureOps /\ Transform(Translation(0, 1))
  \/ ops < MaxCaptureOps /\ SetOpacity(0)
  \/ ops < MaxCaptureOps /\ SetZ(1)

SpecDiag == Init /\ [][NextDiag]_vars

-----------------------------------------------------------------------------
(* What is drawn.  A draw call samples, for each of its vertexCount / 6    *)
(* quads, the texture bound to the unit the quad's textureId names.        *)

\* the commands waiting in the batch list, in batch order
Pending == Flatten([i \in 1..Len(batches) |-> batches[i].commands])

TextureOfImage(g) == textureManager[getSource(g)]

CallContent(c) ==
  [texture |-> TextureOfImage(c.graphic), geometry |-> Geometry(c.transform, c.dest),
   opacity |-> c.opacity, z |-> c.z]

CommandContent(c) ==
  [texture |-> TextureOfImage(c.image), geometry |-> c.geometry,
   opacity |-> c.opacity, z |-> c.z]

QuadContent(d, q) ==
  [texture |-> IF q.textureId + 1 \in 1..Len(d.units) THEN d.units[q.textureId + 1] ELSE 0,
   geometry |-> q.geometry, opacity |-> q.opacity, z |-> q.z]

DrawnQuads(d) == [k \in 1..(d.vertexCount \div 6) |-> QuadContent(d, d.verts[k])]

Drawn(draws) == Flatten([i \in 1..Len(draws) |-> DrawnQuads(draws[i])])

Contents(cs) == [i \in 1..Len(cs) |-> CallContent(cs[i])]

\* the distinct textures a sequence of calls references
CallTextures(cs) == {getSource(cs[i].graphic) : i \in 1..Len(cs)}

BatchSizes == [i \in 1..Len(batches) |-> Len(batches[i].commands)]

CeilDiv(n, d) == (n + d - 1) \div d

-----------------------------------------------------------------------------
(* C1: the commands waiting in the batch list are the drawImage calls made *)
(* since the last flush, in call order, and a flush draws exactly the      *)
(* calls it consumed, each once and in call order.                         *)
C1_FlushDrawsCallsInOrder ==
  /\ [i \in 1..Len(Pending) |-> CommandContent(Pending[i])] = Contents(calls)
  /\ last.op = "flush" => Drawn(last.flushed.draws) = Contents(last.flushed.calls)

\* a flush of two batches that drew calls on different textures
C1_Witness ==
  /\ last.op = "flush"
  /\ Len(last.flushed.draws) >= 2
  /\ Cardinality(CallTextures(last.flushed.calls)) >= 2

(* C2: every batch of the batch list holds at most maxDrawingsPerBatch     *)
(* commands and at most maxGPUTextures distinct textures.                  *)
C2_BatchWithinCaps ==
  \A i \in 1..Len(batches) :
    /\ Len(batches[i].commands) <= maxDrawingsPerBatch
    /\ Cardinality(Range(batches[i].textures)) <= maxGPUTextures
    /\ Cardinality({TextureOfImage(c.image) : c \in Range(batches[i].commands)})
         <= maxGPUTextures

\* a batch opened for a rejected command, after a full batch, inside a save()
C2_Witness ==
  /\ Len(saved) >= 1
  /\ Len(batches) >= 2
  /\ Len(batches[1].commands) = maxDrawingsPerBatch
  /\ Len(batches[Len(batches)].commands) >= 1

(* C3: from an empty batch list, 1..maxDrawingsPerBatch calls that         *)
(* reference at most maxGPUTextures distinct textures leave one batch.     *)
C3_OneBatch ==
  ( /\ Len(calls) >= 1
    /\ Len(calls) <= maxDrawingsPerBatch
    /\ Cardinality(CallTextures(calls)) <= maxGPUTextures )
  => Len(batches) = 1

\* both caps reached exactly, in one batch
C3_Witness ==
  /\ Len(calls) = maxDrawingsPerBatch
  /\ Cardinality(CallTextures(calls)) = maxGPUTextures
  /\ Len(batches) = 1

(* C4: N > maxDrawingsPerBatch calls on one texture give                   *)
(* ceil(N / maxDrawingsPerBatch) batches, all but the last full, none      *)
(* over the cap, with the calls in order across the batches.               *)
C4_OneTextureBatches ==
  ( /\ Len(calls) > maxDrawingsPerBatch
    /\ Cardinality(CallTextures(calls)) = 1 )
  => /\ Len(batches) = CeilDiv(Len(calls), maxDrawingsPerBatch)
     /\ \A i \in 1..(Len(batches) - 1) : BatchSizes[i] = maxDrawingsPerBatch
     /\ BatchSizes[Len(batches)] \in 1..maxDrawingsPerBatch
     /\ [i \in 1..Len(Pending) |-> Pending[i].image]
          = [i \in 1..Len(calls) |-> calls[i].graphic]

\* three batches, the last one partly filled
C4_Witness ==
  /\ Cardinality(CallTextures(calls)) = 1
  /\ Len(calls) = 2 * maxDrawingsPerBatch + 1
  /\ Len(batches) = 3

(* C5: when the last batch holds maxGPUTextures textures and is not full,  *)
(* a drawImage on another texture opens a new batch holding that command   *)
(* and leaves the earlier batches as they were; a drawImage on one of its  *)
(* textures is appended to it.                                             *)
C5_Step ==
  ( /\ Len(calls') = Len(calls) + 1
    /\ batches # <<>>
    /\ Cardinality(Range(batches[Len(batches)].textures)) = maxGPUTextures
    /\ Len(batches[Len(batches)].commands) < maxDrawingsPerBatch )
  => LET n == Len(batches)
         g == calls'[Len(calls')].graphic
         known == /\ TextureOfImage(g) # 0
                  /\ TextureOfImage(g) \in Range(batches[n].textures)
     IN  IF known
         THEN /\ Len(batches') = n
              /\ SubSeq(batches', 1, n - 1) = SubSeq(batches, 1, n - 1)
              /\ Len(batches'[n].commands) = Len(batches[n].commands) + 1
              /\ SubSeq(batches'[n].commands, 1, Len(batches[n].commands))
                   = batches[n].commands
              /\ batches'[n].commands[Len(batches'[n].commands)].image = g
              /\ batches'[n].textures = batches[n].textures
         ELSE /\ Len(batches') = n + 1
              /\ SubSeq(batches', 1, n) = batches
              /\ Len(batches'[n + 1].commands) = 1
              /\ batches'[n + 1].commands[1].image = g

C5_TextureBudgetOpensBatch == [][C5_Step]_vars

\* a batch was just opened behind a batch that is full of textures only
C5_Witness ==
  /\ last.op = "drawImage"
  /\ Len(batches) >= 2
  /\ Cardinality(Range(batches[Len(batches) - 1].textures)) = maxGPUTextures
  /\ Len(batches[Len(batches) - 1].commands) < maxDrawingsPerBatch
  /\ Len(batches[Len(batches)].commands) = 1

(* C6: drawImage with a null drawable changes nothing: pools, batch list,  *)
(* both stacks, the texture cache and diag are as before the call.         *)
C6_NullDrawChangesNothing ==
  [][last'.op = "drawImageNull" =>
       UNCHANGED <<batches, commandPool, batchPool, stack, state, textureManager,
                   diag, calls>>]_vars

\* a null draw in the middle of a frame, after an earlier flush
C6_Witness ==
  /\ last.op = "drawImageNull"
  /\ batches # <<>>
  /\ diag.quads > 0

(* C7: right after a flush, diag.quads is the number of drawImage calls    *)
(* made since the previous flush and diag.batches the number of batches    *)
(* the flush found, which is the number of draw calls it issued.           *)
C7_DiagCountsFrame ==
  last.op = "flush" =>
    /\ diag.quads = Len(last.flushed.calls)
    /\ diag.batches = last.flushed.batches
    /\ diag.batches = Len(last.flushed.draws)

\* a flush of two batches
C7_Witness ==
  /\ last.op = "flush"
  /\ diag.quads > maxDrawingsPerBatch
  /\ diag.batches = 2

(* C8: right after a flush the batch list is empty and no command and no   *)
(* batch is in use.                                                        *)
C8_FlushReturnsAll ==
  last.op = "flush" =>
    /\ batches = <<>>
    /\ InUse(commandPool) = 0
    /\ InUse(batchPool) = 0

\* a flush of a frame that made the command pool grow and used two batches
C8_Witness ==
  /\ last.op = "flush"
  /\ commandPool.total > maxDrawingsPerBatch
  /\ batchPool.total >= 2
  /\ last.flushed.batches >= 2

(* C9: after flush, diag.uniqueTextures is the number of distinct textures *)
(* in the union of the flushed batches' texture sets.                      *)
C9_UniqueTexturesIsUnion ==
  last.op = "flush" =>
    diag.uniqueTextures =
      Cardinality(UNION {Range(last.flushed.draws[i].units) :
                           i \in 1..Len(last.flushed.draws)})

(* C10: after a restore(), the current transform, opacity and z are what   *)
(* they were right before the matching save().                             *)
C10_RestoreGivesSaved ==
  last.op = "restore" => Observed = last.snap

\* a restore that undid a transform write and a render-state write
C10_Witness ==
  /\ last.op = "restore"
  /\ ops >= 2
  /\ Len(saved) >= 1
  /\ Observed.transform # Identity
  /\ Observed.opacity # DefaultState.opacity

(* C11: a command keeps the transform, opacity and z that were current at  *)
(* its drawImage call: no later save, restore, translate, rotate, scale,   *)
(* transform, opacity or z write changes a waiting command, and flush      *)
(* packs the values of the call.                                           *)
C11_CapturedAtCall ==
  /\ LET waiting == Pending
     IN  /\ Len(waiting) = Len(calls)
         /\ \A i \in 1..Len(waiting) :
              /\ waiting[i].geometry = Geometry(calls[i].transform, calls[i].dest)
              /\ waiting[i].opacity = calls[i].opacity
              /\ waiting[i].z = calls[i].z
  /\ last.op = "flush" =>
       LET quads == Flatten([i \in 1..Len(last.flushed.draws) |-> last.flushed.draws[i].verts])
           made  == last.flushed.calls
       IN  /\ Len(quads) = Len(made)
           /\ \A i \in 1..Len(quads) :
                /\ quads[i].geometry = Geometry(made[i].transform, made[i].dest)
                /\ quads[i].opacity = made[i].opacity
                /\ quads[i].z = made[i].z

\* a flush, inside a save(), of two calls, after a write has moved the
\* current transform away from the one the first call was made under
C11_Witness ==
  /\ last.op = "flush"
  /\ Len(saved) >= 1
  /\ Len(last.flushed.calls) = 2
  /\ last.flushed.calls[1].transform # StackCurrent(stack)

(* C12: every pooled command is either free or in use, never both and      *)
(* never neither: a free one is in no batch, one in use sits at exactly    *)
(* one position of exactly one batch of the batch list.  Likewise every    *)
(* pooled batch is either free or at exactly one position of the batch     *)
(* list.                                                                   *)
C12_FreeOrInUseOnce ==
  LET commandAt == {p \in UNION {{<<b, k>> : k \in 1..Len(batches[b].commands)} :
                                   b \in 1..Len(batches)} : TRUE}
      holders(id) == {p \in commandAt : batches[p[1]].commands[p[2]].id = id}
      places(id)  == {b \in 1..Len(batches) : batches[b].id = id}
  IN  /\ commandPool.free \subseteq 1..commandPool.total
      /\ batchPool.free \subseteq 1..batchPool.total
      /\ \A p \in commandAt : batches[p[1]].commands[p[2]].id \in 1..commandPool.total
      /\ \A b \in 1..Len(batches) : batches[b].id \in 1..batchPool.total
      /\ \A id \in 1..commandPool.total :
           Cardinality(holders(id)) = IF id \in commandPool.free THEN 0 ELSE 1
      /\ \A id \in 1..batchPool.total :
           Cardinality(places(id)) = IF id \in batchPool.free THEN 0 ELSE 1

\* a later frame: recycled commands in two batches, one command still free
C12_Witness ==
  /\ diag.quads > maxDrawingsPerBatch
  /\ Len(batches) = 2
  /\ Len(batches[1].commands) >= 2
  /\ commandPool.free # {}
  /\ batchPool.free = {}

(* C13: the texture slot packed for a command is the index of the          *)
(* command's own texture in the texture list of the batch being packed:    *)
(* it lies in 0 .. size - 1, it is the unit that bindTextures binds that   *)
(* texture to, it is never -1 and never the slot of another command.       *)
C13_SlotIsOwnTextureIndex ==
  last.op = "flush" =>
    \A i \in 1..Len(last.flushed.draws) :
      LET d     == last.flushed.draws[i]
          batch == last.flushed.list[i]
      IN  \A k \in 1..Len(batch.commands) :
            LET slot == d.verts[k].textureId
                own  == TextureOfImage(batch.commands[k].image)
            IN  /\ own # 0
                /\ slot # -1
                /\ slot \in 0..(Len(batch.textures) - 1)
                /\ slot = indexOf(batch.textures, own)
                /\ d.units[slot + 1] = own

\* a flush whose second batch starts with a texture other than the first
\* one of the cache and holds a command packed with slot 1
C13_Witness ==
  /\ last.op = "flush"
  /\ Len(last.flushed.draws) >= 2
  /\ last.flushed.draws[2].units[1] # 1
  /\ \E k \in 1..Len(last.flushed.draws[2].verts) :
       last.flushed.draws[2].verts[k].textureId = 1

(* C14: flush issues one draw call per batch, in batch order; the draw     *)
(* call of a batch starts at vertex 0 and covers 6 * commands.length       *)
(* vertices, and what it reads there are the records packed for that same  *)
(* batch in this flush, none left by an earlier batch and none unwritten.  *)
C14_OneDrawPerBatch ==
  last.op = "flush" =>
    /\ Len(last.flushed.draws) = Len(last.flushed.list)
    /\ \A i \in 1..Len(last.flushed.list) :
         LET d      == last.flushed.draws[i]
             batch  == last.flushed.list[i]
             packed == PackFrom(batch, 1, 0)
         IN  /\ d.vertexCount = 6 * Len(batch.commands)
             /\ d.units = batch.textures
             /\ DOMAIN d.verts = 1..Len(batch.commands)
             /\ \A k \in 1..Len(batch.commands) :
                  /\ d.verts[k] = packed[k]
                  /\ d.verts[k] # ZeroQuad

\* a flush of a full batch followed by a shorter one
C14_Witness ==
  /\ last.op = "flush"
  /\ Len(last.flushed.list) = 2
  /\ Len(last.flushed.list[1].commands) = maxDrawingsPerBatch
  /\ Len(last.flushed.list[2].commands) = 1
  /\ last.flushed.draws[2].vertexCount = 6

\* a run of consecutive calls that one batch can hold
FitsOneBatch(cs) ==
  /\ Len(cs) <= maxDrawingsPerBatch
  /\ Cardinality(CallTextures(cs)) <= maxGPUTextures

\* the least number of runs that a sequence of calls can be cut into, in
\* order, such that one batch can hold each run
RECURSIVE MinCuts(_)
MinCuts(cs) ==
  IF cs = <<>>
  THEN 0
  ELSE Min({1 + MinCuts(SubSeq(cs, k + 1, Len(cs))) :
              k \in {j \in 1..Len(cs) : FitsOneBatch(SubSeq(cs, 1, j))}})

(* C15: the number of batches is the least possible: no way of cutting     *)
(* the calls made since the last flush into consecutive runs that respect  *)
(* both caps has fewer runs than the batch list has batches.               *)
C15_FewestBatches ==
  Len(batches) = MinCuts(calls)

\* two batches for four calls on three textures, the second batch opened
\* by the texture cap
C15_Witness ==
  /\ Len(calls) = 4
  /\ Cardinality(CallTextures(calls)) = 3
  /\ Len(batches) = 2
  /\ Len(batches[1].commands) < maxDrawingsPerBatch

(* C16: when the last batch rejects a command, that batch is not changed:  *)
(* its commands and its textures, like those of every earlier batch, are   *)
(* what they were before the call, and the rejected command is in the      *)
(* newly opened batch and nowhere else.                                    *)
C16_Step ==
  ( /\ Len(calls') = Len(calls) + 1
    /\ batches # <<>>
    /\ Len(batches') = Len(batches) + 1 )
  => LET n == Len(batches)
         g == calls'[Len(calls')].graphic
         opened == batches'[n + 1]
     IN  /\ SubSeq(batches', 1, n) = batches
         /\ Len(opened.commands) = 1
         /\ opened.commands[1].image = g
         /\ opened.textures = <<textureManager'[getSource(g)]>>
         /\ \A b \in 1..n : \A k \in 1..Len(batches'[b].commands) :
               batches'[b].commands[k].id # opened.commands[1].id

C16_RejectionLeavesLastBatch == [][C16_Step]_vars

\* a batch was just opened behind a batch full of commands, for a command
\* whose texture the full batch does not hold
C16_Witness ==
  /\ last.op = "drawImage"
  /\ Len(batches) >= 2
  /\ Len(batches[Len(batches) - 1].commands) = maxDrawingsPerBatch
  /\ Len(batches[Len(batches)].commands) = 1
  /\ batches[Len(batches)].textures[1] \notin Range(batches[Len(batches) - 1].textures)

C18_StacksSameDepth ==
  /\ Len(stack) = Len(state)
  /\ Len(stack) = Len(saved) + 1

\* two nested saves are open again after a restore, with writes in between
C18_Witness ==
  /\ last.op = "save"
  /\ Len(stack) = 3
  /\ ops >= 1
  /\ stack[3] # stack[1]
  /\ state[3] # state[1]

(* C19: the texture cache is keyed by backing image and only grows: no     *)
(* step removes or remaps the texture of an image, different images have   *)
(* different textures, and drawables that share an image count as one      *)
(* texture in a batch: the batch's texture list has one entry per backing  *)
(* image of its commands.                                                  *)
C19_Step ==
  /\ \A i \in Images : textureManager[i] # 0 => textureManager'[i] = textureManager[i]
  /\ \A i, j \in Images :
       (textureManager'[i] # 0 /\ textureManager'[i] = textureManager'[j]) => i = j
  /\ \A b \in 1..Len(batches') :
       LET images == {getSource(c.image) : c \in Range(batches'[b].commands)}
       IN  /\ Len(batches'[b].textures) = Cardinality(images)
           /\ Range(batches'[b].textures) = {textureManager'[i] : i \in images}
           /\ \A i \in images : textureManager'[i] # 0

C19_CacheOnlyGrows == [][C19_Step]_vars

\* a later frame: one batch holds two drawables of one image next to a
\* drawable of another image, within the texture cap, all textures loaded
C19_Witness ==
  /\ diag.quads > 0
  /\ \A i \in Images : textureManager[i] # 0
  /\ \E b \in 1..Len(batches) :
       /\ {1, 4} \subseteq {c.image : c \in Range(batches[b].commands)}
       /\ Len(batches[b].commands) = 3
       /\ Len(batches[b].textures) = 2

\* a coordinate counted in half pixels that is a whole number of pixels
IsWholePixel(v) == v % 2 = 0

(* C20: with snapToPixel enabled, the x and y that flush writes into the   *)
(* vertex buffer for a command are truncated to integers; with snapToPixel *)
(* disabled they are written as the command holds them.                    *)
C20_SnapTruncatesWritten ==
  last.op = "flush" =>
    LET quads == Flatten([i \in 1..Len(last.flushed.draws) |-> last.flushed.draws[i].verts])
        made  == last.flushed.calls
    IN  \A i \in 1..Len(quads) :
          IF snapToPixel
          THEN \A v \in 1..6 : /\ IsWholePixel(quads[i].geometry[v][1])
                                /\ IsWholePixel(quads[i].geometry[v][2])
          ELSE quads[i].geometry = Geometry(made[i].transform, made[i].dest)

-----------------------------------------------------------------------------
\* the texture coordinates of the quads a sequence of draw calls reads, in order
DrawnUV(draws) ==
  Flatten([i \in 1..Len(draws) |->
             [k \in 1..(draws[i].vertexCount \div 6) |-> draws[i].verts[k].uv]])

\* two fractions with the same value
SameFraction(p, q) == p[1] * q[2] = q[1] * p[2]

SameUV(a, b) == \A i \in 1..4 : SameFraction(a[i], b[i])

\* a fraction in [0, 1]
InUnitInterval(p) == p[2] > 0 /\ 0 <= p[1] /\ p[1] <= p[2]

\* the source rectangle over the padded width and height
RectOver(view, potW, potH) ==
  << <<view[1], potW>>, <<view[2], potH>>,
     <<view[1] + view[3], potW>>, <<view[2] + view[4], potH>> >>

\* the source rectangle lies inside the backing image
InsideImage(g) ==
  /\ View(g)[1] >= 0 /\ View(g)[1] + View(g)[3] <= NaturalSize(getSource(g))[1]
  /\ View(g)[2] >= 0 /\ View(g)[2] + View(g)[4] <= NaturalSize(getSource(g))[2]

\* the smallest power of two >= n, found by search
IsPowerOfTwo(p) == \E e \in 0..10 : p = 2 ^ e

PaddedOf(n) == Min({p \in n..(2 * n + 1) : IsPowerOfTwo(p)})

(* C21 (as amended): every quad a flush draws carries the source rectangle *)
(* of its call divided by padded dimensions, u0 = sx/potW, v0 = sy/potH,   *)
(* u1 = (sx+sw)/potW, v1 = (sy+sh)/potH, where a padded dimension is the   *)
(* smallest power of two >= the backing image's natural dimension, or,     *)
(* when the image reports 0, >= the command's own dimension; a source      *)
(* rectangle inside the image yields coordinates in [0, 1].                *)
C21_UVOverPaddedSize ==
  last.op = "flush" =>
    LET uvs == DrawnUV(last.flushed.draws)
        cs  == last.flushed.calls
    IN  /\ Len(uvs) = Len(cs)
        /\ \A j \in 1..Len(cs) :
             LET g    == cs[j].graphic
                 nat  == NaturalSize(getSource(g))
                 potW == PaddedOf(IF nat[1] # 0 THEN nat[1] ELSE GraphicSize(g)[1])
                 potH == PaddedOf(IF nat[2] # 0 THEN nat[2] ELSE GraphicSize(g)[2])
             IN  /\ SameUV(uvs[j], RectOver(View(g), potW, potH))
                 /\ InsideImage(g) => \A i \in 1..4 : InUnitInterval(uvs[j][i])

\* a flush drew the whole 100 x 37 image over 128 x 64, and a part of it
C21_Witness ==
  /\ last.op = "flush"
  /\ \E j \in 1..Len(last.flushed.calls) :
       /\ last.flushed.calls[j].graphic = 1
       /\ DrawnUV(last.flushed.draws)[j] = << <<0, 128>>, <<0, 64>>, <<100, 128>>, <<37, 64>> >>
  /\ \E j \in 1..Len(last.flushed.calls) :
       /\ last.flushed.calls[j].graphic = 4
       /\ DrawnUV(last.flushed.draws)[j] = << <<10, 128>>, <<5, 64>>, <<60, 128>>, <<25, 64>> >>

\* C21 as stated: the padded dimension is always taken from the image's
\* natural dimension
C21_UVOverPaddedImageSize ==
  last.op = "flush" =>
    LET uvs == DrawnUV(last.flushed.draws)
        cs  == last.flushed.calls
    IN  /\ Len(uvs) = Len(cs)
        /\ \A j \in 1..Len(cs) :
             LET g   == cs[j].graphic
                 nat == NaturalSize(getSource(g))
             IN  SameUV(uvs[j], RectOver(View(g), PaddedOf(nat[1]), PaddedOf(nat[2])))

-----------------------------------------------------------------------------
\* one step keeps the four counters unless it is a flush
C22_Step == last'.op # "flush" => diag' = diag

(* C22: only flush changes the diagnostics: drawImage (with a drawable or  *)
(* with null), save, restore, translate, rotate, scale, transform, clear   *)
(* and the writes of opacity and z leave quads, batches, uniqueTextures    *)
(* and maxTexturePerDraw as they were.                                     *)
C22_OnlyFlushChangesDiag == [][C22_Step]_vars

\* counters of a flush that drew something are still there after later draws
\* inside a save, and a clear
C22_Witness ==
  /\ last.op = "clear"
  /\ diag.quads > 0 /\ diag.batches > 0
  /\ Len(calls) > 0
  /\ Len(saved) > 0

-----------------------------------------------------------------------------
-----------------------------------------------------------------------------
\* the distinct elements of a sequence, in order of first appearance
RECURSIVE DistinctInOrder(_)
DistinctInOrder(seq) ==
  IF seq = <<>>
  THEN <<>>
  ELSE LET front == DistinctInOrder(SubSeq(seq, 1, Len(seq) - 1))
           x     == seq[Len(seq)]
       IN  IF x \in Range(front) THEN front ELSE Append(front, x)

(* C24: the texture list of every batch is exactly the textures of the     *)
(* batch's commands, each listed once, in the order the commands first     *)
(* used them; this holds as well for a batch that was opened for a         *)
(* rejected command, whose first command was added without the admission   *)
(* test.                                                                   *)
C24_TextureListIsCommandTextures ==
  \A b \in 1..Len(batches) :
    LET used == [k \in 1..Len(batches[b].commands) |->
                   TextureOfImage(batches[b].commands[k].image)]
    IN  /\ batches[b].textures = DistinctInOrder(used)
        /\ Cardinality(Range(batches[b].textures)) = Len(batches[b].textures)
        /\ \A t \in Range(batches[b].textures) : t # 0

\* a second batch, opened for a command the first batch rejected, that has
\* since taken another command on the same texture
C24_Witness ==
  /\ Len(batches) = 2
  /\ Len(batches[1].textures) = maxGPUTextures
  /\ Len(batches[2].commands) = 2
  /\ Len(batches[2].textures) = 1
  /\ batches[2].textures[1] \notin Range(batches[1].textures)

-----------------------------------------------------------------------------
(* C25: the batch list never holds an empty batch: a batch is opened only  *)
(* by a drawImage call with a drawable, so there are no more batches than  *)
(* calls, and it holds at least one command until the flush; a flush       *)
(* issues no draw call of 0 vertices and diag.batches counts non-empty     *)
(* batches only.                                                           *)
C25_NoEmptyBatch ==
  /\ \A b \in 1..Len(batches) : Len(batches[b].commands) >= 1
  /\ Len(batches) <= Len(calls)
  /\ last.op = "flush" =>
       /\ \A i \in 1..Len(last.flushed.draws) : last.flushed.draws[i].vertexCount > 0
       /\ diag.batches =
            Cardinality({i \in 1..Len(last.flushed.list) :
                           last.flushed.list[i].commands # <<>>})

\* a null drawImage with two batches waiting, after a flush that counted two
C25_Witness ==
  /\ last.op = "drawImageNull"
  /\ Len(batches) = 2
  /\ diag.batches = 2

-----------------------------------------------------------------------------
\* a drawImage or flush step leaves both stacks and what the caller observes
C26_Step ==
  last'.op \in {"drawImage", "drawImageNull", "flush"} =>
    /\ Len(stack') = Len(stack)
    /\ Len(state') = Len(state)
    /\ Observed' = Observed
    /\ stack' = stack
    /\ state' = state

(* C26: drawImage (with a drawable or with null) and flush read the        *)
(* transform and render state and never write them: the depth of both      *)
(* stacks, the current transform, the opacity and z are the same after     *)
(* the call as before it.                                                  *)
C26_DrawAndFlushKeepState == [][C26_Step]_vars

\* a flush of drawn calls inside a save, with a state that is not the default
C26_Witness ==
  /\ last.op = "flush"
  /\ Len(last.flushed.calls) > 0
  /\ Len(stack) = 2 /\ Len(state) = 2
  /\ Observed # [transform |-> Identity, opacity |-> DefaultState.opacity,
                  z |-> DefaultState.z]

-----------------------------------------------------------------------------
(* C27: in every reachable state, the states between construction and the  *)
(* first flush included, diag.maxTexturePerDraw is the texture budget      *)
(* maxGPUTextures that the context read from the device.                   *)
C27_DiagReportsDeviceBudget == diag.maxTexturePerDraw = maxGPUTextures

====
